---- MODULE Spec2Model ----
(***************************************************************************)
(* Detection and alerting pipeline of the security AI backend:             *)
(*   - VideoProcessor.process_video / process_camera_stream and the Alert  *)
(*     they create and update        (utils/video_processor.py)            *)
(*   - send_alert_notifications, the post_save handler of Alert            *)
(*                                   (alerts/signals.py)                   *)
(*   - StreamProxy and CameraManager's proxy registry                      *)
(*                    (utils/stream_proxy.py, utils/camera_manager.py)     *)
(* Confidences are hundredths (0.95 is 95).  Times of day are ticks.       *)
(***************************************************************************)
EXTENDS Integers, Sequences, FiniteSets, TLC

VARIABLES
    \* ---- one VideoProcessor run
    pc,                     \* "idle" | "loop" | "finalize" | "returned" | "raised"
    mode,                   \* "file" (process_video) | "stream" (process_camera_stream)
    detector_key,           \* the detector_key argument of the run
    frame_rate,             \* camera.frame_rate, the stride of a stream run
    conf_threshold,         \* the confidence threshold of the run
    frame_limit,            \* frame_limit of a stream run
    duration,               \* duration of a stream run
    src_len,                \* frames the source delivers before a read fails
    frame_count,
    detection_count,
    detection_frames,
    detection_confidences,
    alert,                  \* the in-memory Alert of the run (NoRecord before creation)
    alert_db,               \* the persisted Alert row (NoRecord before creation)
    out,                    \* frames written to the output video, in order
    camera_status,          \* Camera.status of the camera of the run
    error,                  \* the exception that ended the run (None: none)
    scored,                 \* history: the frames handed to the detector
    seen,                   \* history: <<frame, confidence>> of every box a scored frame returned
    last_exc,               \* history: the frames whose scoring raised
    \* ---- the notification handler
    npc,                    \* "ready" | "done" (the handler ran) | "updated" (saved again)
    ns,                     \* the owner's NotificationSetting (NoRecord when absent)
    phone,                  \* user.phone_number is set
    now,                    \* timezone.now().time()
    saved,                  \* the Alert whose save fired the handler
    logs,                   \* NotificationLog rows, in creation order
    aborted,                \* history: the handler ended in its outer except
    plan,                   \* history: the outcome of each channel's calls
    \* ---- one camera's stream proxies
    camera_type,            \* camera.camera_type
    active_streams,         \* CameraManager.active_streams[camera.id]: a proxy (0: no entry)
    stream_lock,            \* the holder of stream_locks[camera.id] (0: free)
    tpc,                    \* where each caller of the CameraManager is
    proxies,                \* the StreamProxy objects made so far
    procs,                  \* the transcoder processes launched so far
    monitors,               \* the monitor threads started so far
    \* ---- the ModelManager
    active_detector_key,
    detector_configs,       \* detector key -> [conf_threshold, iou_threshold, image_size]
    mm_last,                \* history: the last call, its result, and the state before it
    \* ---- probes of the camera
    probe,                  \* history: the last probe, what the source did, what was reported
    faulty,                  \* the environment of this behaviour: database and writer calls may raise
    \* ---- the output directory of the video processor
    video_files             \* the output paths the runs have reserved, in order

vpVars == <<pc, mode, detector_key, frame_rate, conf_threshold, frame_limit, duration, src_len,
            frame_count, detection_count, detection_frames, detection_confidences,
            alert, alert_db, out, camera_status, error, scored, seen, last_exc>>
notifVars == <<npc, ns, phone, now, saved, logs, aborted, plan>>
proxyVars == <<camera_type, active_streams, stream_lock, tpc, proxies, procs, monitors>>
mmVars == <<active_detector_key, detector_configs, mm_last>>
vars == <<vpVars, notifVars, proxyVars, mmVars, probe, faulty, video_files>>

None == "None"
\* the value of a variable that holds no record: no Alert yet, no NotificationSetting row
NoRecord == [absent |-> TRUE]

\* ------------------------------------------------------------------ bounds
MaxFrames == 10
MaxFrameLimit == 2
MaxTime == 2
MaxProxies == 2
MaxLaunches == 2

\* --------------------------------------------------------- program constants
FileStride == 5
CriticalMin == 90
HighMin == 70
MediumMin == 50
DefaultRank == 2
DefaultSmsRank == 3

Severities == {"low", "medium", "high", "critical"}
Channels == <<"email", "sms", "push">>
ChannelSet == {"email", "sms", "push"}

Max(S) == CHOOSE x \in S : \A y \in S : y <= x

\* ================================================================ notifications
\* Alert types that have a per-channel toggle (signals.py:33-52); "other" has none.
ToggledTypes == {"fire_smoke", "fall", "violence", "choking", "unauthorized_face"}

\* severity_rank.get(sev, default)
severity_rank(sev, default) ==
    CASE sev = "low" -> 1
      [] sev = "medium" -> 2
      [] sev = "high" -> 3
      [] sev = "critical" -> 4
      [] OTHER -> default

\* should_send_<c> after the alert-type branch: <c>_enabled and <c>_for_<type>;
\* s[c].for_type is the value of the field <c>_for_<alert_type>.
should_send_by_type(s, c, a) ==
    IF a.alert_type \in ToggledTypes THEN s[c].enabled /\ s[c].for_type ELSE FALSE

\* the severity threshold with a plausible slip: an alert at the minimum is dropped
should_send_by_severity_strict(s, c, a) ==
    /\ should_send_by_type(s, c, a)
    /\ severity_rank(a.severity, DefaultRank)
         > severity_rank(s[c].min_severity, IF c = "sms" THEN DefaultSmsRank ELSE DefaultRank)

\* should_send_<c> after the severity threshold
should_send_by_severity(s, c, a) ==
    /\ should_send_by_type(s, c, a)
    /\ severity_rank(a.severity, DefaultRank)
         >= severity_rank(s[c].min_severity, IF c = "sms" THEN DefaultSmsRank ELSE DefaultRank)

\* the test of the quiet-hours block: the current time counts as within quiet hours
in_quiet_hours(s, t) ==
    /\ s.quiet_hours_enabled
    /\ IF s.quiet_hours_start <= s.quiet_hours_end
       THEN s.quiet_hours_start <= t /\ t <= s.quiet_hours_end
       ELSE ~(s.quiet_hours_end <= t /\ t <= s.quiet_hours_start)

\* should_send_<c> when the channel blocks are reached
should_send(s, c, a, t) ==
    /\ should_send_by_severity(s, c, a)
    /\ ~(in_quiet_hours(s, t) /\ a.severity # "critical")

LogRow(c, st, sent, err) == [channel |-> c, status |-> st, sent_at |-> sent, error_message |-> err]

\* A variant of one channel block whose except clause does not record the failure:
\* the row of a raising send is left as created.
dispatch_without_failure_record(c, o) ==
    IF ~o.create
    THEN [rows |-> <<>>, abort |-> TRUE]
    ELSE IF o.send /\ o.save
    THEN [rows |-> <<LogRow(c, "sent", TRUE, FALSE)>>, abort |-> FALSE]
    ELSE [rows |-> <<LogRow(c, "pending", FALSE, FALSE)>>, abort |-> FALSE]

\* One channel block.  o says which of its calls succeed: o.create (NotificationLog
\* .objects.create), o.send (send_mail; the sms and push sends only log), o.save (the
\* save of the sent row), o.save_failed (the save of the failed row in the handler).
\* The result is the persisted row, if any, and whether an exception left the block.
dispatch(c, o) ==
    IF ~o.create
    THEN \* email: the except clause reads notification_log, which was never bound;
         \* sms, push: the create is outside the try
         [rows |-> <<>>, abort |-> TRUE]
    ELSE IF o.send /\ o.save
    THEN [rows |-> <<LogRow(c, "sent", TRUE, FALSE)>>, abort |-> FALSE]
    ELSE IF o.save_failed
    THEN [rows |-> <<LogRow(c, "failed", o.send, TRUE)>>, abort |-> FALSE]
    ELSE [rows |-> <<LogRow(c, "pending", FALSE, FALSE)>>, abort |-> TRUE]

NoRows == [rows |-> <<>>, abort |-> FALSE]

\* wanted(c): the condition of the channel's if statement
wanted(s, c, a, ph, t) ==
    should_send(s, c, a, t) /\ (c = "sms" => ph)

\* the handler with a plausible slip: the created flag is not tested
send_alert_notifications_every_save(a, created, s, ph, t, pl) ==
    IF a.camera = None \/ s = NoRecord
    THEN NoRows
    ELSE LET e == IF wanted(s, "email", a, ph, t) THEN dispatch("email", pl["email"]) ELSE NoRows
             m == IF e.abort THEN NoRows
                  ELSE IF wanted(s, "sms", a, ph, t) THEN dispatch("sms", pl["sms"]) ELSE NoRows
             p == IF e.abort \/ m.abort THEN NoRows
                  ELSE IF wanted(s, "push", a, ph, t) THEN dispatch("push", pl["push"]) ELSE NoRows
         IN  [rows |-> e.rows \o m.rows \o p.rows, abort |-> e.abort \/ m.abort \/ p.abort]

\* The handler: the rows it leaves and whether it ended in its outer except.
send_alert_notifications(a, created, s, ph, t, pl) ==
    IF ~created \/ a.camera = None \/ s = NoRecord
    THEN NoRows
    ELSE LET e == IF wanted(s, "email", a, ph, t) THEN dispatch("email", pl["email"]) ELSE NoRows
             m == IF e.abort THEN NoRows
                  ELSE IF wanted(s, "sms", a, ph, t) THEN dispatch("sms", pl["sms"]) ELSE NoRows
             p == IF e.abort \/ m.abort THEN NoRows
                  ELSE IF wanted(s, "push", a, ph, t) THEN dispatch("push", pl["push"]) ELSE NoRows
         IN  [rows |-> e.rows \o m.rows \o p.rows, abort |-> e.abort \/ m.abort \/ p.abort]

\* ---- the inputs of the handler
Times == 0..MaxTime
ChannelSettings == [enabled : BOOLEAN, for_type : BOOLEAN, min_severity : Severities]
QuietChannelSettings == [enabled : BOOLEAN, for_type : {TRUE}, min_severity : {"low", "high"}]
Settings ==
    [email : ChannelSettings, sms : ChannelSettings, push : ChannelSettings,
     quiet_hours_enabled : {FALSE}, quiet_hours_start : {0}, quiet_hours_end : {0}]
    \cup
    [email : QuietChannelSettings, sms : QuietChannelSettings, push : QuietChannelSettings,
     quiet_hours_enabled : {TRUE}, quiet_hours_start : Times, quiet_hours_end : Times]

AllSucceed == [create |-> TRUE, send |-> TRUE, save |-> TRUE, save_failed |-> TRUE]
\* What a channel's calls may do: the mail send fails or not; with f the database
\* calls may raise as well.
Outcomes(c, f) ==
    {o \in [create : BOOLEAN, send : BOOLEAN, save : BOOLEAN, save_failed : BOOLEAN] :
        /\ (c # "email" => o.send)
        /\ (~f => o.create /\ o.save /\ o.save_failed)
        /\ (~o.send => o.save)
        /\ (o.send /\ o.save => o.save_failed)
        /\ (~o.create => o.send /\ o.save /\ o.save_failed)}
Plans(f) == [ChannelSet -> UNION {Outcomes(c, f) : c \in ChannelSet}]
PlansFor(f) == {pl \in Plans(f) : \A c \in ChannelSet : pl[c] \in Outcomes(c, f)}

SavedAlerts ==
    [severity : Severities, alert_type : {"fire_smoke"}, camera : {"cam"}]
    \cup {[severity |-> "high", alert_type |-> "other", camera |-> "cam"],
          [severity |-> "high", alert_type |-> "fire_smoke", camera |-> None]}

\* ================================================================ model manager
\* the keys of ModelManager.detectors; no operation adds or removes one
Registry == {"fire_smoke", "fall", "violence", "choking"}
\* the keys callers pass: the registered ones and one that is not
Keys == Registry \cup {"bogus"}

DefaultConfig == [conf_threshold |-> 25, iou_threshold |-> 45, image_size |-> 640]
\* ModelManager.__init__: detector_configs
InitConfigs ==
    [k \in Registry |->
        CASE k = "fire_smoke" -> [conf_threshold |-> 25, iou_threshold |-> 45, image_size |-> 640]
          [] k = "fall" -> [conf_threshold |-> 40, iou_threshold |-> 37, image_size |-> 512]
          [] k = "violence" -> [conf_threshold |-> 35, iou_threshold |-> 35, image_size |-> 736]
          [] k = "choking" -> [conf_threshold |-> 25, iou_threshold |-> 30, image_size |-> 640]]

\* get_detector with a plausible slip: an unknown key falls back to the active detector
get_detector_defaulting(key, active) ==
    [raised |-> FALSE, detector |-> IF key \in Registry THEN key ELSE active]

\* ModelManager.get_detector(key) with the active key `active`: whether it raises,
\* and the detector it returns
get_detector(key, active) ==
    LET k == IF key = None THEN active ELSE key
    IN  IF k \notin Registry
        THEN [raised |-> TRUE, detector |-> None]
        ELSE [raised |-> FALSE, detector |-> k]

\* ModelManager.set_active_detector(key): whether it raises, and the active key after it
set_active_detector(key, active) ==
    IF key \notin Registry
    THEN [raised |-> TRUE, active |-> active]
    ELSE [raised |-> get_detector(None, key).raised, active |-> key]

\* an argument of update_detector_config left at its default None
NoArg == -1

\* ModelManager.get_detector_config(key) with the stored configs
get_detector_config(key, configs) ==
    IF key \notin DOMAIN configs THEN DefaultConfig ELSE configs[key]

\* A variant of update_detector_config that tests its arguments for truth, so that
\* a value of 0 counts as not passed.
update_detector_config_truthy(key, c, i, s, configs) ==
    LET old == get_detector_config(key, configs)
        new == [conf_threshold |-> IF c # NoArg /\ c # 0 THEN c ELSE old.conf_threshold,
                iou_threshold |-> IF i # NoArg /\ i # 0 THEN i ELSE old.iou_threshold,
                image_size |-> IF s # NoArg /\ s # 0 THEN s ELSE old.image_size]
    IN  [k \in DOMAIN configs \cup {key} |-> IF k = key THEN new ELSE configs[k]]

\* ModelManager.update_detector_config(key, conf_threshold, iou_threshold, image_size):
\* the stored configs after the call; the call returns the entry of key
update_detector_config(key, c, i, s, configs) ==
    LET old == get_detector_config(key, configs)
        new == [conf_threshold |-> IF c # NoArg THEN c ELSE old.conf_threshold,
                iou_threshold |-> IF i # NoArg THEN i ELSE old.iou_threshold,
                image_size |-> IF s # NoArg THEN s ELSE old.image_size]
    IN  [k \in DOMAIN configs \cup {key} |-> IF k = key THEN new ELSE configs[k]]

\* no probe of the camera has been made
ProbeIdle == probe = [op |-> "none", source |-> None, success |-> FALSE, message |-> None]

\* ModelManager.__init__
MMIdle ==
    /\ active_detector_key = "fire_smoke"
    /\ detector_configs = InitConfigs
    /\ mm_last = [op |-> "init", key |-> None, raised |-> FALSE,
                  active_before |-> "fire_smoke", configs_before |-> InitConfigs]

\* ---- the handler as a process: one save of an Alert, then the handler's run
VPIdle ==
    /\ pc = "idle" /\ mode = None /\ detector_key = None /\ frame_rate = 1 /\ conf_threshold = 0
    /\ frame_limit = 0 /\ duration = 0 /\ src_len = 0 /\ frame_count = 0
    /\ detection_count = 0 /\ detection_frames = <<>> /\ detection_confidences = <<>>
    /\ alert = NoRecord /\ alert_db = NoRecord /\ out = <<>> /\ camera_status = "inactive"
    /\ error = None /\ scored = {} /\ seen = {} /\ last_exc = {}
    /\ video_files = <<>>

\* the settings of the behaviours in which database calls may raise: every channel
\* passes the severity threshold, so each channel block is reached or not by its switch
OpenChannelSettings == [enabled : BOOLEAN, for_type : {TRUE}, min_severity : {"low"}]
FaultSettings ==
    [email : OpenChannelSettings, sms : OpenChannelSettings, push : OpenChannelSettings,
     quiet_hours_enabled : {FALSE}, quiet_hours_start : {0}, quiet_hours_end : {0}]

Threads == {1, 2}
ProxyIdle ==
    /\ camera_type = "rtsp" /\ active_streams = 0 /\ stream_lock = 0
    /\ tpc = [t \in Threads |-> "idle"]
    /\ proxies = <<>> /\ procs = <<>> /\ monitors = <<>>

NotifInit(f) ==
    /\ VPIdle
    /\ ProxyIdle
    /\ MMIdle
    /\ ProbeIdle
    /\ faulty = f
    /\ npc = "ready"
    /\ ns \in (IF f THEN FaultSettings ELSE Settings \cup {NoRecord})
    /\ phone \in BOOLEAN
    /\ now \in Times
    /\ (IF ns = NoRecord THEN TRUE ELSE ~ns.quiet_hours_enabled) => now = 0
    /\ saved \in (IF f THEN {a \in SavedAlerts : a.camera # None /\ a.alert_type # "other"} ELSE SavedAlerts)
    /\ logs = <<>>
    /\ aborted = FALSE
    /\ plan = [c \in ChannelSet |-> AllSucceed]

\* post_save of a newly created Alert (created = True)
AlertCreated ==
    /\ npc = "ready"
    /\ \E pl \in PlansFor(faulty) :
         LET r == send_alert_notifications(saved, TRUE, ns, phone, now, pl)
         IN  /\ logs' = logs \o r.rows
             /\ aborted' = r.abort
             /\ plan' = pl
    /\ npc' = "done"
    /\ UNCHANGED <<vpVars, proxyVars, mmVars, probe, ns, phone, now, saved, faulty, video_files>>

\* post_save of a later save of the same Alert (created = False)
AlertUpdated ==
    /\ npc \in {"done", "updated"}
    /\ npc' = "updated"
    /\ \E sev \in Severities :
         /\ saved' = [saved EXCEPT !.severity = sev]
         /\ LET r == send_alert_notifications(saved', FALSE, ns, phone, now, plan)
            IN  logs' = logs \o r.rows
    /\ UNCHANGED <<vpVars, proxyVars, mmVars, probe, ns, phone, now, aborted, plan, faulty, video_files>>

NotifNext == AlertCreated \/ AlertUpdated
NotifSpec == NotifInit(FALSE) /\ [][NotifNext]_vars
NotifFaultSpec == NotifInit(TRUE) /\ [][NotifNext]_vars

\* ================================================================ video processing
ConfLevels == {30, 50, 70, 90}
ConfThresholds == {25, 70}
FrameRates == {0, 1, 2, 3}
Durations == {0, 60}
\* the detector_key of a run: a registered key and one that is not
RunKeys == {"fire_smoke", "bogus"}

\* r.boxes.conf of one result: the confidences of its boxes ({}: no boxes)
Boxes == {S \in SUBSET ConfLevels : Cardinality(S) <= 2}
SingleBoxes == {S \in SUBSET ConfLevels : Cardinality(S) <= 1}
ResultLists == {<<b>> : b \in Boxes} \cup {<<a, b>> : a \in SingleBoxes, b \in SingleBoxes}
\* detector.predict_video_frame on one frame: it raises (the model fails to load, the
\* prediction fails, the result list is empty) or returns its results
DetectorOutcomes ==
    {[raises |-> TRUE, results |-> <<>>]} \cup [raises : {FALSE}, results : ResultLists]

Faults == IF faulty THEN BOOLEAN ELSE {FALSE}

\* severity_of with a plausible slip: strict comparisons
severity_of_strict(confidence) ==
    IF confidence > CriticalMin THEN "critical"
    ELSE IF confidence > HighMin THEN "high"
    ELSE IF confidence > MediumMin THEN "medium"
    ELSE "low"

\* the severity chain of the frame loop
severity_of(confidence) ==
    IF confidence >= CriticalMin THEN "critical"
    ELSE IF confidence >= HighMin THEN "high"
    ELSE IF confidence >= MediumMin THEN "medium"
    ELSE "low"

NoFrame == <<0, "none">>
Original(n) == <<n, "original">>
Annotated(n) == <<n, "annotated">>

\* Alert.objects.create(...) of a run: status and confidence take the model's defaults
new_alert(cam) ==
    [status |-> "new", severity |-> "medium", confidence |-> 0,
     description |-> "initial", thumbnail |-> NoFrame,
     alert_type |-> "fire_smoke", camera |-> cam, resolved_by |-> None]

\* scan_results with a plausible slip: the frame's confidence is the last result's, not the maximum
RECURSIVE scan_results_last(_, _, _, _, _)
scan_results_last(results, i, n, threshold, acc) ==
    IF i > Len(results) THEN acc
    ELSE LET r == results[i]
             max_conf == Max(r)
         IN  IF r # {} /\ max_conf >= threshold
             THEN scan_results_last(results, i + 1, n, threshold,
                    [has_detection |-> TRUE,
                     confidence |-> max_conf,
                     frames |-> Append(acc.frames, n),
                     confidences |-> Append(acc.confidences, max_conf),
                     count |-> acc.count + 1])
             ELSE scan_results_last(results, i + 1, n, threshold, acc)

\* the for loop over the results of one scored frame; acc carries has_detection,
\* confidence, detection_frames, detection_confidences and detection_count
RECURSIVE scan_results(_, _, _, _, _)
scan_results(results, i, n, threshold, acc) ==
    IF i > Len(results) THEN acc
    ELSE LET r == results[i]
             max_conf == Max(r)
         IN  IF r # {} /\ max_conf >= threshold
             THEN scan_results(results, i + 1, n, threshold,
                    [has_detection |-> TRUE,
                     confidence |-> IF max_conf > acc.confidence THEN max_conf ELSE acc.confidence,
                     frames |-> Append(acc.frames, n),
                     confidences |-> Append(acc.confidences, max_conf),
                     count |-> acc.count + 1])
             ELSE scan_results(results, i + 1, n, threshold, acc)

\* the stride test of the frame loop
stride == IF mode = "file" THEN FileStride ELSE frame_rate

\* cap.set(CAP_PROP_POS_FRAMES, frame_number); cap.read(): the property is the
\* 0-based index of the frame decoded next
frame_at(video, frame_number) ==
    IF frame_number + 1 <= Len(video) THEN video[frame_number + 1] ELSE NoFrame

\* detection_confidences.index(max(detection_confidences))
best_frame_idx(confidences) ==
    LET m == Max({confidences[i] : i \in 1..Len(confidences)})
    IN  CHOOSE i \in 1..Len(confidences) :
          /\ confidences[i] = m
          /\ \A j \in 1..(i - 1) : confidences[j] # m

source_video == [i \in 1..src_len |-> Original(i)]

\* the notification settings of the camera owner in the runs of the pipeline: none,
\* and the defaults of the NotificationSetting model
DefaultSettings ==
    [email |-> [enabled |-> TRUE, for_type |-> TRUE, min_severity |-> "medium"],
     sms |-> [enabled |-> FALSE, for_type |-> TRUE, min_severity |-> "high"],
     push |-> [enabled |-> TRUE, for_type |-> TRUE, min_severity |-> "medium"],
     quiet_hours_enabled |-> FALSE, quiet_hours_start |-> 0, quiet_hours_end |-> 0]
PipelineSettings == {NoRecord, DefaultSettings}

Init ==
    /\ VPIdle
    /\ ProxyIdle
    /\ MMIdle
    /\ ProbeIdle
    /\ faulty = FALSE
    /\ npc = "ready"
    /\ ns \in PipelineSettings
    /\ phone = TRUE
    /\ now = 0
    /\ saved = NoRecord
    /\ logs = <<>>
    /\ aborted = FALSE
    /\ plan = [c \in ChannelSet |-> AllSucceed]

\* Alert.objects.create(...): the row, and the post_save handler it fires
create_alert(cam) ==
    /\ alert' = new_alert(cam)
    /\ alert_db' = new_alert(cam)
    /\ saved' = [severity |-> "medium", alert_type |-> "fire_smoke", camera |-> cam]
    /\ \E pl \in PlansFor(FALSE) :
         LET r == send_alert_notifications(saved', TRUE, ns, phone, now, pl)
         IN  /\ logs' = logs \o r.rows
             /\ aborted' = r.abort
             /\ plan' = pl

raise_before_alert(e) ==
    /\ pc' = "raised"
    /\ error' = e
    /\ UNCHANGED <<conf_threshold, src_len, alert, alert_db, saved, logs, aborted, plan>>

\* process_video up to the frame loop.  key_ok: the detector key is registered;
\* open_ok: the file opens; cam: the camera of camera_id (None: no camera_id,
\* "missing": no such camera)
process_video ==
    /\ pc = "idle"
    /\ mode' = "file"
    /\ \E key \in RunKeys, open_ok \in BOOLEAN, cam \in {None, "missing", "cam"} :
         /\ detector_key' = key
         /\ IF get_detector(key, active_detector_key).raised
            THEN raise_before_alert("UnknownDetector")
            ELSE IF ~open_ok THEN raise_before_alert("OpenFailed")
            ELSE IF cam # "cam"
            THEN \* camera stays None and Alert.camera is a non-null foreign key
                 raise_before_alert("IntegrityError")
            ELSE /\ \E thr \in ConfThresholds, len \in 0..MaxFrames :
                      conf_threshold' = thr /\ src_len' = len
                 /\ create_alert(cam)
                 /\ pc' = "loop"
                 /\ UNCHANGED error
    /\ UNCHANGED <<frame_rate, frame_limit, duration, frame_count, detection_count,
                   detection_frames, detection_confidences, out, camera_status,
                   scored, seen, last_exc, npc, ns, phone, now, faulty, video_files, proxyVars, mmVars, probe>>

\* process_camera_stream up to the frame loop
process_camera_stream ==
    /\ pc = "idle"
    /\ mode' = "stream"
    /\ \E found \in BOOLEAN, key \in RunKeys, open_ok \in BOOLEAN :
         /\ detector_key' = key
         /\ IF ~found
            THEN raise_before_alert("CameraNotFound")
                 /\ UNCHANGED <<camera_status, frame_rate, frame_limit, duration>>
            ELSE IF get_detector(key, active_detector_key).raised
            THEN raise_before_alert("UnknownDetector")
                 /\ UNCHANGED <<camera_status, frame_rate, frame_limit, duration>>
            ELSE IF ~open_ok
            THEN raise_before_alert("OpenFailed")
                 /\ camera_status' = "offline"
                 /\ UNCHANGED <<frame_rate, frame_limit, duration>>
            ELSE /\ camera_status' = "online"
                 /\ \E thr \in ConfThresholds, len \in 0..MaxFrames, fr \in FrameRates,
                       lim \in 0..MaxFrameLimit, d \in Durations :
                      /\ conf_threshold' = thr /\ src_len' = len /\ frame_rate' = fr
                      /\ frame_limit' = lim /\ duration' = d
                 /\ create_alert("cam")
                 /\ pc' = "loop"
                 /\ UNCHANGED error
    /\ UNCHANGED <<frame_count, detection_count, detection_frames, detection_confidences,
                   out, scored, seen, last_exc, npc, ns, phone, now, faulty, video_files, proxyVars, mmVars, probe>>

runInputs == <<mode, detector_key, frame_rate, conf_threshold, frame_limit, duration, src_len>>
envVars == <<npc, ns, phone, now, saved, logs, aborted, plan, faulty, video_files, camera_status, proxyVars,
            mmVars, probe>>

\* the environment of the frame loop apart from the notification rows
envRest == <<npc, ns, phone, now, saved, aborted, plan, faulty, video_files, camera_status, proxyVars,
            mmVars, probe>>

\* A variant of later_save in which the handler takes a later save for a creation.
later_save_as_creation(a) ==
    IF saved = NoRecord THEN <<>>
    ELSE send_alert_notifications([saved EXCEPT !.severity = a.severity], TRUE,
                                  ns, phone, now, plan).rows

\* A later save of the run's Alert (alert.save(update_fields=...)): Django sends
\* post_save with created = False to the notification handler, which gets the Alert
\* as it is then; the rows the handler leaves.
later_save(a) ==
    IF saved = NoRecord THEN <<>>
    ELSE send_alert_notifications([saved EXCEPT !.severity = a.severity], FALSE,
                                  ns, phone, now, plan).rows

\* cap.read() returns no frame: the loop ends
read_fails ==
    /\ pc = "loop"
    /\ frame_count >= src_len
    /\ pc' = "finalize"
    /\ UNCHANGED <<runInputs, envVars, frame_count, detection_count, detection_frames,
                   detection_confidences, alert, alert_db, out, error, scored, seen, last_exc>>

\* the test that ends the loop of a stream run after a frame
after_frame(n) ==
    IF mode = "stream"
    THEN \E time_up \in (IF duration = 0 THEN {TRUE} ELSE BOOLEAN) :
           pc' = IF time_up \/ n >= frame_limit THEN "finalize" ELSE "loop"
    ELSE pc' = "loop"

\* frame_count % camera.frame_rate with frame_rate 0: the exception leaves the loop
\* and the function
zero_stride ==
    /\ pc = "loop"
    /\ frame_count < src_len
    /\ stride = 0
    /\ frame_count' = frame_count + 1
    /\ pc' = "raised"
    /\ error' = "ZeroDivisionError"
    /\ UNCHANGED <<runInputs, envVars, detection_count, detection_frames,
                   detection_confidences, alert, alert_db, out, scored, seen, last_exc>>

\* a frame that is not scored goes to the output as it is
pass_frame ==
    /\ pc = "loop"
    /\ frame_count < src_len
    /\ stride # 0
    /\ (frame_count + 1) % stride # 0
    /\ frame_count' = frame_count + 1
    /\ out' = Append(out, Original(frame_count + 1))
    /\ after_frame(frame_count + 1)
    /\ UNCHANGED <<runInputs, envVars, detection_count, detection_frames,
                   detection_confidences, alert, alert_db, error, scored, seen, last_exc>>

\* A variant of the test below that lets every detection of a frame update the alert.
updates_alert_on_any_detection(has_detection, confidence, a) == has_detection

\* the test that guards the alert update of a scored frame
updates_alert(has_detection, confidence, a) == has_detection /\ confidence > a.confidence

\* the alert update of a scored frame: confidence, severity, and their save
update_alert(a, confidence) ==
    [a EXCEPT !.confidence = confidence, !.severity = severity_of(confidence)]

\* a scored frame.  o: what the detector does; write_raises: out.write of the
\* annotated frame raises; save_raises: alert.save raises
score_frame ==
    /\ pc = "loop"
    /\ frame_count < src_len
    /\ stride # 0
    /\ (frame_count + 1) % stride = 0
    /\ frame_count' = frame_count + 1
    /\ scored' = scored \cup {frame_count + 1}
    /\ \E o \in DetectorOutcomes, write_raises \in Faults, save_raises \in Faults :
         LET n == frame_count + 1
             acc == scan_results(o.results, 1, n, conf_threshold,
                      [has_detection |-> FALSE, confidence |-> 0,
                       frames |-> detection_frames,
                       confidences |-> detection_confidences,
                       count |-> detection_count])
             updates == updates_alert(acc.has_detection, acc.confidence, alert)
         IN  IF o.raises
             THEN /\ out' = Append(out, Original(n))
                  /\ last_exc' = last_exc \cup {n}
                  /\ UNCHANGED <<detection_count, detection_frames, detection_confidences,
                                 alert, alert_db, seen, logs>>
             ELSE /\ seen' = seen \cup {<<n, c>> : c \in UNION {o.results[i] : i \in 1..Len(o.results)}}
                  /\ detection_frames' = acc.frames
                  /\ detection_confidences' = acc.confidences
                  /\ detection_count' = acc.count
                  /\ IF write_raises
                     THEN /\ out' = Append(out, Original(n))
                          /\ last_exc' = last_exc \cup {n}
                          /\ UNCHANGED <<alert, alert_db, logs>>
                     ELSE IF ~updates
                     THEN /\ out' = Append(out, Annotated(n))
                          /\ UNCHANGED <<alert, alert_db, last_exc, logs>>
                     ELSE /\ alert' = update_alert(alert, acc.confidence)
                          /\ IF save_raises
                             THEN /\ out' = out \o <<Annotated(n), Original(n)>>
                                  /\ last_exc' = last_exc \cup {n}
                                  /\ UNCHANGED <<alert_db, logs>>
                             ELSE /\ out' = Append(out, Annotated(n))
                                  /\ alert_db' = [alert_db EXCEPT
                                                    !.confidence = alert'.confidence,
                                                    !.severity = alert'.severity]
                                  /\ logs' = logs \o later_save(alert')
                                  /\ UNCHANGED last_exc
    /\ after_frame(frame_count + 1)
    /\ UNCHANGED <<runInputs, envRest, error>>

\* _create_thumbnail(video, alert, frame_number): the frame the thumbnail shows
\* (NoFrame: the read failed and the alert keeps no thumbnail)
create_thumbnail(video, frame_number) == frame_at(video, frame_number)

\* after the loop: the description, and the thumbnail or the automatic disposition
finalize ==
    /\ pc = "finalize"
    /\ IF detection_count > 0
       THEN LET best == detection_frames[best_frame_idx(detection_confidences)]
                thumb == create_thumbnail(IF mode = "file" THEN source_video ELSE out, best)
            IN  /\ alert' = [alert EXCEPT !.description = "detected", !.thumbnail = thumb]
                /\ alert_db' = [alert_db EXCEPT !.description = "detected", !.thumbnail = thumb]
       ELSE /\ alert' = [alert EXCEPT !.status = "false_positive", !.description = "none_detected"]
            /\ alert_db' = [alert_db EXCEPT !.status = "false_positive",
                                            !.description = "none_detected"]
    /\ logs' = logs \o later_save(alert')
    /\ pc' = "returned"
    /\ UNCHANGED <<runInputs, envRest, frame_count, detection_count, detection_frames,
                   detection_confidences, out, error, scored, seen, last_exc>>

Next ==
    \/ process_video
    \/ process_camera_stream
    \/ read_fails
    \/ zero_stride
    \/ pass_frame
    \/ score_frame
    \/ finalize

Spec == Init /\ [][Next]_vars

\* A run in which the calls of the frame loop's try block other than the detector may
\* raise as well: out.write of the annotated frame and alert.save.
FaultInit ==
    /\ VPIdle
    /\ ProxyIdle
    /\ MMIdle
    /\ ProbeIdle
    /\ faulty = TRUE
    /\ npc = "ready"
    /\ ns \in PipelineSettings
    /\ phone = TRUE
    /\ now = 0
    /\ saved = NoRecord
    /\ logs = <<>>
    /\ aborted = FALSE
    /\ plan = [c \in ChannelSet |-> AllSucceed]

FaultSpec == FaultInit /\ [][Next]_vars

\* Runs for the camera of a user whose channels are all enabled with different
\* minimum severities and who has quiet hours, at a time inside or outside the window.
RunSettings ==
    [email |-> [enabled |-> TRUE, for_type |-> TRUE, min_severity |-> "high"],
     sms |-> [enabled |-> TRUE, for_type |-> TRUE, min_severity |-> "critical"],
     push |-> [enabled |-> TRUE, for_type |-> TRUE, min_severity |-> "medium"],
     quiet_hours_enabled |-> TRUE, quiet_hours_start |-> 0, quiet_hours_end |-> 1]

NotifiedRunInit ==
    /\ VPIdle
    /\ ProxyIdle
    /\ MMIdle
    /\ ProbeIdle
    /\ faulty = FALSE
    /\ npc = "ready"
    /\ ns = RunSettings
    /\ phone = TRUE
    /\ now \in Times
    /\ saved = NoRecord
    /\ logs = <<>>
    /\ aborted = FALSE
    /\ plan = [c \in ChannelSet |-> AllSucceed]

NotifiedRunSpec == NotifiedRunInit /\ [][Next]_vars

\* ---- output paths.  Runs are independent jobs; each is followed up to the point
\* where it has reserved its output path.
MaxRuns == 3
CameraIds == {1, 2}
PathKeys == {"fire_smoke", "fall"}

\* process_video: f"{detector_key}_{timestamp}_{uuid.uuid4().hex[:8]}.mp4"
video_filename(key, timestamp, uuid) == <<key, timestamp, uuid>>

\* process_camera_stream: f"camera_{camera_id}_{detector_key}_{timestamp}.mp4"
stream_filename(camera_id, key, timestamp) == <<"camera", camera_id, key, timestamp>>

\* uuid.uuid4(): a value no earlier call returned
uuid4 == Len(video_files) + 1

\* the clock second used in the timestamp moves on
tick ==
    /\ now < MaxTime
    /\ now' = now + 1
    /\ UNCHANGED <<vpVars, proxyVars, mmVars, probe, faulty, npc, ns, phone, saved, logs,
                   aborted, plan, video_files>>

\* a process_video run reaches cv2.VideoWriter(output_path, ...)
video_run_reserves(key) ==
    /\ Len(video_files) < MaxRuns
    /\ video_files' = Append(video_files,
                             [run |-> "file", video_file |-> video_filename(key, now, uuid4)])
    /\ UNCHANGED <<vpVars, notifVars, proxyVars, mmVars, probe, faulty>>

\* a process_camera_stream run reaches cv2.VideoWriter(output_path, ...)
stream_run_reserves(camera_id, key) ==
    /\ Len(video_files) < MaxRuns
    /\ video_files' = Append(video_files,
                             [run |-> "stream",
                              video_file |-> stream_filename(camera_id, key, now)])
    /\ UNCHANGED <<vpVars, notifVars, proxyVars, mmVars, probe, faulty>>

PathNext ==
    \/ tick
    \/ \E key \in PathKeys : video_run_reserves(key)
    \/ \E camera_id \in CameraIds, key \in PathKeys : stream_run_reserves(camera_id, key)

PathSpec == Init /\ [][PathNext]_vars

\* The run is one sequential function call: while it has a step to take it takes it.
LiveSpec == Spec /\ WF_vars(Next)

\* ---- a reviewer resolves the Alert of a run through the status view
ManualStatuses == {"confirmed", "dismissed", "false_positive"}

\* Alert.mark_as_confirmed / mark_as_dismissed / mark_as_false_positive on the row a
\* (resolved_time is not modelled)
mark_as(a, st) == [a EXCEPT !.status = st, !.resolved_by = "user"]

\* AlertViewSet.status: get_object() loads the persisted row, mark_as_* saves it
status_view(st) ==
    /\ alert_db # NoRecord
    /\ alert_db' = mark_as(alert_db, st)
    /\ UNCHANGED <<runInputs, envVars, pc, frame_count, detection_count, detection_frames,
                   detection_confidences, alert, out, error, scored, seen, last_exc>>

ReviewNext == Next \/ \E st \in ManualStatuses : status_view(st)
ReviewSpec == Init /\ [][ReviewNext]_vars

\* ---- probes of the camera's source
\* what the source does when an operation probes it: an exception inside the cv2
\* calls (or in reading the camera's attributes), the open fails, the open succeeds
\* and the first read fails, or a frame is read
SourceOutcomes == {"exception", "open_fails", "read_fails", "ok"}

\* CameraManager._capture_rtsp_frame: the result's message
capture_message(o) ==
    CASE o = "exception" -> "RTSP frame capture error"
      [] o = "open_fails" -> "Failed to open RTSP stream"
      [] o = "read_fails" -> "Failed to read frame from RTSP stream"
      [] o = "ok" -> "Frame captured successfully"

\* CameraManager._verify_rtsp_connection: success = cap.isOpened() and cap.grab()
verify_camera_connection(o) ==
    CASE o = "exception" -> [success |-> FALSE, message |-> "RTSP connection error"]
      [] o = "ok" -> [success |-> TRUE, message |-> "RTSP connection successful"]
      [] OTHER -> [success |-> FALSE, message |-> "Failed to connect to RTSP stream"]

\* CameraViewSet.stream: the status it stores
stream_status(o) ==
    CASE o = "ok" -> "online"
      [] o = "read_fails" -> "error"
      [] o = "open_fails" -> "offline"
      [] o = "exception" -> "error"

probeFrame == <<vpVars, notifVars, proxyVars, mmVars, faulty, video_files>>
runVars == <<pc, mode, detector_key, frame_rate, conf_threshold, frame_limit, duration,
             src_len, frame_count, detection_count, detection_frames,
             detection_confidences, alert, alert_db, out, error, scored, seen, last_exc>>

\* CameraManager.capture_frame on the camera: the status is not touched
capture_frame ==
    /\ \E o \in SourceOutcomes :
         probe' = [op |-> "capture_frame", source |-> o, success |-> (o = "ok"),
                   message |-> capture_message(o)]
    /\ UNCHANGED probeFrame

\* CameraManager.update_camera_statuses on the camera
update_camera_statuses ==
    /\ \E o \in SourceOutcomes :
         LET result == verify_camera_connection(o)
         IN  /\ probe' = [op |-> "update_camera_statuses", source |-> o,
                          success |-> result.success, message |-> result.message]
             /\ camera_status' =
                   IF result.success
                   THEN "online"
                   ELSE IF camera_status = "online" THEN "offline" ELSE camera_status
    /\ UNCHANGED <<runVars, notifVars, proxyVars, mmVars, faulty, video_files>>

\* CameraViewSet.stream on the camera
stream_view ==
    /\ \E o \in SourceOutcomes :
         /\ probe' = [op |-> "stream_view", source |-> o, success |-> (o = "ok"),
                      message |-> IF o = "ok" THEN "Camera stream URL retrieved successfully."
                                  ELSE IF o = "exception" THEN "Error connecting to camera."
                                  ELSE IF stream_status(o) = "error" THEN "Camera is error."
                                  ELSE "Camera is offline."]
         /\ camera_status' = stream_status(o)
    /\ UNCHANGED <<runVars, notifVars, proxyVars, mmVars, faulty, video_files>>

\* The transport kinds of a camera; "other" stands for any unsupported kind.
TransportKinds == {"rtsp", "http", "local", "file", "other"}

\* What the transport of a camera of a given kind may do when it is probed.
\* "exception" is any exception other than the requests exceptions.
TransportOutcomes(kind) ==
    CASE kind \in {"rtsp", "local"} -> {"exception", "open_fails", "read_fails", "ok"}
      [] kind = "file" -> {"exception", "not_found", "open_fails", "read_fails", "ok"}
      [] kind = "http" -> {"exception", "timeout", "request_exception", "bad_status",
                           "bad_content", "ok"}
      [] OTHER -> {"ok"}

Raised == [raised |-> TRUE, success |-> None, message |-> None, frame |-> None]
Result(success, message, frame) ==
    [raised |-> FALSE, success |-> success, message |-> message, frame |-> frame]

\* CameraManager._verify_<kind>_connection.  The rtsp, local and file helpers catch
\* every exception; the http helper catches the requests exceptions only.
verify_helper(kind, o) ==
    CASE o = "ok" -> Result(TRUE, "connection successful", None)
      [] o = "exception" ->
           IF kind = "http" THEN Raised ELSE Result(FALSE, "connection error", None)
      [] o = "timeout" -> Result(FALSE, "HTTP connection timed out", None)
      [] o = "request_exception" -> Result(FALSE, "HTTP connection error", None)
      [] o \in {"bad_status", "bad_content"} -> Result(FALSE, "HTTP connection failed", None)
      [] o = "not_found" -> Result(FALSE, "Video file not found", None)
      [] o = "open_fails" -> Result(FALSE, "Failed to open", None)
      [] o = "read_fails" ->
           Result(FALSE, IF kind = "rtsp" THEN "Failed to open" ELSE "Failed to read frame", None)

\* A variant of verify_camera_connection without its own exception handler.
verify_camera_connection_unguarded(kind, o) ==
    IF kind = "other"
    THEN Result(FALSE, "Unsupported camera type", None)
    ELSE verify_helper(kind, o)

\* CameraManager.verify_camera_connection(camera) for a camera of any kind
verify_camera_connection_of(kind, o) ==
    IF kind = "other"
    THEN Result(FALSE, "Unsupported camera type", None)
    ELSE IF verify_helper(kind, o).raised
    THEN Result(FALSE, "Connection error", None)
    ELSE verify_helper(kind, o)

\* CameraManager._capture_<kind>_frame: every helper catches every exception.  For
\* http, bad_content is a 200 response whose body does not decode to an image.
capture_helper(kind, o) ==
    CASE o = "ok" -> Result(TRUE, "Frame captured successfully", "frame")
      [] o \in {"exception", "timeout", "request_exception"} ->
           Result(FALSE, "frame capture error", None)
      [] o = "bad_status" -> Result(FALSE, "HTTP request failed", None)
      [] o = "bad_content" -> Result(FALSE, "Failed to decode image from HTTP response", None)
      [] o = "not_found" -> Result(FALSE, "Video file not found", None)
      [] o = "open_fails" -> Result(FALSE, "Failed to open", None)
      [] o = "read_fails" -> Result(FALSE, "Failed to read frame", None)

\* CameraManager.capture_frame(camera) for a camera of any kind
capture_frame_of(kind, o) ==
    IF kind = "other"
    THEN Result(FALSE, "Unsupported camera type", None)
    ELSE IF capture_helper(kind, o).raised
    THEN Result(FALSE, "Error capturing frame", None)
    ELSE capture_helper(kind, o)

\* a call of one of the two functions, recorded with its input and its result
call_capture_frame ==
    /\ \E kind \in TransportKinds : \E o \in TransportOutcomes(kind) :
         probe' = [op |-> "capture_frame", kind |-> kind, source |-> o,
                   result |-> capture_frame_of(kind, o)]
    /\ UNCHANGED probeFrame

call_verify_camera_connection ==
    /\ \E kind \in TransportKinds : \E o \in TransportOutcomes(kind) :
         probe' = [op |-> "verify_camera_connection", kind |-> kind, source |-> o,
                   result |-> verify_camera_connection_of(kind, o)]
    /\ UNCHANGED probeFrame

\* A behaviour is a sequence of probes of the idle camera, or one processing run.
ProbeNext ==
    \/ pc = "idle" /\ capture_frame
    \/ pc = "idle" /\ update_camera_statuses
    \/ pc = "idle" /\ stream_view
    \/ probe.op = "none" /\ Next

ProbeSpec == Init /\ [][ProbeNext]_vars

\* Calls of capture_frame and verify_camera_connection on cameras of every kind,
\* between the operations that set the camera's status.
TransportNext ==
    \/ call_capture_frame
    \/ call_verify_camera_connection
    \/ update_camera_statuses
    \/ stream_view

TransportSpec == Init /\ [][TransportNext]_vars

\* ---- the ModelManager's lookups, and invocations of the processor with any key.
\* The invocations are followed up to the frame loop: one with an unknown key has
\* ended by then.
call_get_detector(key) ==
    /\ pc = "idle"
    /\ mm_last' = [op |-> "get_detector", key |-> key,
                   raised |-> get_detector(key, active_detector_key).raised,
                   active_before |-> active_detector_key,
                   configs_before |-> detector_configs]
    /\ UNCHANGED <<vpVars, notifVars, proxyVars, active_detector_key, detector_configs, probe,
                   faulty, video_files>>

call_set_active_detector(key) ==
    /\ pc = "idle"
    /\ LET r == set_active_detector(key, active_detector_key)
       IN  /\ active_detector_key' = r.active
           /\ mm_last' = [op |-> "set_active_detector", key |-> key, raised |-> r.raised,
                          active_before |-> active_detector_key,
                          configs_before |-> detector_configs]
    /\ UNCHANGED <<vpVars, notifVars, proxyVars, detector_configs, probe, faulty, video_files>>

KeyNext ==
    \/ \E key \in Keys \cup {None} : call_get_detector(key)
    \/ \E key \in Keys : call_set_active_detector(key)
    \/ process_video
    \/ process_camera_stream

KeySpec == Init /\ [][KeyNext]_vars

\* the keys and the argument values of the configuration calls
ConfigKeys == {"fire_smoke", "fall", "bogus"}
ConfArgs == {NoArg, 0}
IouArgs == {NoArg, 30}
SizeArgs == {NoArg, 320}

call_update_detector_config(key, c, i, s) ==
    /\ detector_configs' = update_detector_config(key, c, i, s, detector_configs)
    /\ mm_last' = [op |-> "update_detector_config", key |-> key, conf_threshold |-> c,
                   iou_threshold |-> i, image_size |-> s,
                   result |-> detector_configs'[key]]
    /\ UNCHANGED <<vpVars, notifVars, proxyVars, active_detector_key, probe, faulty, video_files>>

call_get_detector_config(key) ==
    /\ mm_last' = [op |-> "get_detector_config", key |-> key,
                   result |-> get_detector_config(key, detector_configs)]
    /\ UNCHANGED <<vpVars, notifVars, proxyVars, active_detector_key, detector_configs, probe,
                   faulty, video_files>>

ConfigNext ==
    \/ \E key \in ConfigKeys, c \in ConfArgs, i \in IouArgs, s \in SizeArgs :
         call_update_detector_config(key, c, i, s)
    \/ \E key \in ConfigKeys : call_get_detector_config(key)
    \/ \E key \in Keys : call_set_active_detector(key)

ConfigSpec == Init /\ [][ConfigNext]_vars

\* ================================================================ claims: video processing
RunEnded == pc \in {"returned", "raised"}
AlertExists == alert # NoRecord
\* the confidences of the boxes of scored frames that cleared the threshold
Cleared == {d[2] : d \in {e \in seen : e[2] >= conf_threshold}}
\* the frames read so far whose 1-based index is a multiple of the stride
StrideFrames == {n \in 1..frame_count : stride # 0 /\ n % stride = 0}
\* the classification of a confidence as the specification words it
Classification(c) ==
    CASE c >= 90 -> "critical"
      [] c < 90 /\ c >= 70 -> "high"
      [] c < 70 /\ c >= 50 -> "medium"
      [] OTHER -> "low"

\* C1: at the end of a run the Alert's confidence is the maximum confidence among the
\* detections of the scored frames (the frames whose index is a multiple of the stride)
\* that are >= conf_threshold, and 0.0 when none cleared the threshold.
C1_ConfidenceIsMaxCleared ==
    RunEnded /\ AlertExists =>
        /\ (pc = "returned" => scored = StrideFrames)
        /\ \A d \in seen : d[1] \in StrideFrames
        /\ alert.confidence = (IF Cleared = {} THEN 0 ELSE Max(Cleared))

\* C1 witness: a finished run in which an earlier scored frame holds the maximum, a
\* later one cleared the threshold with less, and some detection stayed below it
C1_Witness ==
    /\ pc = "returned"
    /\ \E d1 \in seen, d2 \in seen, d3 \in seen :
         /\ d1[1] < d2[1] /\ d1[2] > d2[2] /\ d2[2] >= conf_threshold
         /\ d3[2] < conf_threshold
         /\ alert.confidence = d1[2]

\* C2: a run that created an Alert and in which no scored frame produced a detection
\* >= conf_threshold ends with the Alert's status false_positive, never new.
C2_ZeroDetectionEndsFalsePositive ==
    RunEnded /\ AlertExists /\ Cleared = {} => alert.status = "false_positive"

\* C3 as stated: in every state of the Alert, severity is the classification of its
\* current confidence.
C3_SeverityIsClassification ==
    AlertExists => alert.severity = Classification(alert.confidence)

\* C3 amended: severity is the classification of the confidence once a scored frame
\* has raised the confidence; while the confidence is still 0.0 it is the "medium"
\* the Alert was created with.
C3_SeverityIsClassificationOnceScored ==
    AlertExists =>
        /\ alert.severity = (IF alert.confidence = 0 THEN "medium"
                             ELSE Classification(alert.confidence))
        /\ alert_db.severity = (IF alert_db.confidence = 0 THEN "medium"
                                ELSE Classification(alert_db.confidence))

\* C3 witness: an Alert whose confidence was raised twice, the second time across a
\* class boundary
C3_Witness ==
    /\ AlertExists
    /\ pc = "loop"
    /\ alert.confidence = 90 /\ alert.severity = "critical"
    /\ \E d \in seen : d[2] = 50 /\ d[2] >= conf_threshold

\* the frames at which the highest confidence of the run was recorded
BestFrames ==
    {detection_frames[i] : i \in {j \in 1..Len(detection_confidences) :
        \A k \in 1..Len(detection_confidences) :
            detection_confidences[k] <= detection_confidences[j]}}

\* C9: a run that recorded a detection takes the thumbnail from the frame at which the
\* highest detection confidence was recorded, wherever that frame is in the source.
C9_ThumbnailFromBestFrame ==
    pc = "returned" /\ detection_count > 0 => alert.thumbnail[1] \in BestFrames

\* C10: an invocation either raises without having created an Alert or returns a
\* finalized Alert; none raises after its Alert has been created.
C10_RaiseOnlyBeforeAlert ==
    /\ (pc = "raised" => ~AlertExists)
    /\ (pc = "returned" =>
          /\ alert.description # "initial"
          /\ (detection_count = 0 => alert.status = "false_positive"))

\* C11: get_detector and set_active_detector with a key that is not registered raise
\* and leave the active key and the configs as they were; process_video and
\* process_camera_stream with such a key raise before an Alert exists, a frame is
\* written, a notification is logged or the camera's status is changed.
C11_UnknownKeyRejectedWithoutEffect ==
    /\ (mm_last.op \in {"get_detector", "set_active_detector"} /\ mm_last.key \notin Registry
           /\ mm_last.key # None) =>
          /\ mm_last.raised
          /\ active_detector_key = mm_last.active_before
          /\ detector_configs = mm_last.configs_before
    /\ (pc # "idle" /\ detector_key \notin Registry) =>
          /\ pc = "raised"
          /\ alert = NoRecord /\ alert_db = NoRecord /\ out = <<>> /\ logs = <<>>
          /\ camera_status = "inactive"

\* C11 witness: the active detector was switched, then a lookup of an unknown key
\* raised, then process_camera_stream was invoked with an unknown key for a camera
\* that exists
C11_Witness ==
    /\ mm_last.op = "get_detector" /\ mm_last.key = "bogus" /\ mm_last.raised
    /\ active_detector_key = "fall"
    /\ mode = "stream" /\ detector_key = "bogus" /\ error = "UnknownDetector"

\* C13: once an Alert has been resolved by a mark_as_* call, no later operation changes
\* any field of the persisted Alert (notes apart): neither another mark_as_* call nor
\* a write of the run that is still in progress.
C13_ResolvedAlertIsImmutable ==
    [][(alert_db # NoRecord /\ alert_db.resolved_by # None) => alert_db' = alert_db]_vars

\* C14: in every operation that probes the camera, a source that opens but whose first
\* read fails is reported differently from one that fails to open and leaves the
\* camera's status error; a source that fails to open leaves it offline.
C14_ReadFailureIsErrorOpenFailureIsOffline ==
    /\ probe.source = "read_fails" =>
          /\ camera_status = "error"
          /\ probe.message # (CASE probe.op = "capture_frame" -> capture_message("open_fails")
                                [] probe.op = "update_camera_statuses"
                                     -> verify_camera_connection("open_fails").message
                                [] probe.op = "stream_view" -> "Camera is offline.")
    /\ probe.source = "open_fails" => camera_status = "offline"
    /\ (mode = "stream" /\ pc \in {"finalize", "returned"} /\ frame_count = 0) =>
          camera_status = "error"
    /\ (mode = "stream" /\ error = "OpenFailed") => camera_status = "offline"

\* ================================================================ stream proxies
ProxyCameraTypes == {"rtsp", "local"}
CameraTypes == {"rtsp", "local", "http"}

\* StreamProxy.__init__
new_proxy == [process |-> 0, is_running |-> FALSE, stop_event |-> FALSE]

\* stop with a plausible slip: the handle is cleared without terminating the process
stop_forgets(x, ps, raises) ==
    IF x.process = 0 THEN [proxy |-> x, procs |-> ps]
    ELSE [proxy |-> [x EXCEPT !.stop_event = TRUE, !.is_running = FALSE, !.process = 0],
          procs |-> ps]

\* StreamProxy.stop() on proxy x with the processes ps: the proxy and the processes
\* after it.  raises: terminating the live process raised
stop(x, ps, raises) ==
    IF x.process = 0 THEN [proxy |-> x, procs |-> ps]
    ELSE IF ps[x.process].alive /\ raises
    THEN [proxy |-> [x EXCEPT !.stop_event = TRUE, !.process = 0], procs |-> ps]
    ELSE [proxy |-> [x EXCEPT !.stop_event = TRUE, !.is_running = FALSE, !.process = 0],
          procs |-> [ps EXCEPT ![x.process] =
                       [@ EXCEPT !.alive = FALSE, !.stopped = @ \/ ps[x.process].alive]]]

\* what the launch in start() does: building the input URL raises, Popen raises, the
\* transcoder exits within the two seconds start() waits, or it keeps running
StartOutcomes == {"url_raises", "popen_raises", "exits", "runs"}

\* StreamProxy.start() on proxy i: the proxy, the processes, the monitor threads and
\* the value returned
start(i, x, ps, ms, o, raises) ==
    LET s1 == stop(x, ps, raises)
        pid == Len(s1.procs) + 1
    IN  IF o \in {"url_raises", "popen_raises"}
        THEN [proxy |-> s1.proxy, procs |-> s1.procs, monitors |-> ms, ok |-> FALSE]
        ELSE IF o = "exits"
        THEN [proxy |-> [s1.proxy EXCEPT !.process = pid],
              procs |-> Append(s1.procs, [owner |-> i, alive |-> FALSE, stopped |-> FALSE]),
              monitors |-> ms, ok |-> FALSE]
        ELSE [proxy |-> [s1.proxy EXCEPT !.process = pid, !.is_running = TRUE],
              procs |-> Append(s1.procs, [owner |-> i, alive |-> TRUE, stopped |-> FALSE]),
              monitors |-> Append(ms, [proxy |-> i, at |-> "check"]), ok |-> TRUE]

\* the launches that the bound on processes still allows
Launches == IF Len(procs) < MaxLaunches THEN StartOutcomes ELSE {"url_raises", "popen_raises"}

Pending == {u \in Threads : tpc[u] \in {"gs_lock", "gs_start"}}

otherVars == <<mmVars, probe, pc, mode, detector_key, frame_rate, conf_threshold, frame_limit, duration, src_len,
               frame_count, detection_count, detection_frames, detection_confidences,
               alert, alert_db, out, error, scored, seen, last_exc, notifVars, faulty, video_files>>

\* CameraManager.get_stream_url on a camera that has an active_streams entry: the
\* membership test fails to start anything and the call returns 'Stream proxy
\* available' with success True
reports_available == camera_type \in ProxyCameraTypes /\ active_streams # 0

\* CameraManager.get_stream_url up to the lock: the membership test
get_stream_url(t) ==
    /\ tpc[t] = "idle"
    /\ IF camera_type \in ProxyCameraTypes /\ active_streams = 0
       THEN /\ Len(proxies) + Cardinality(Pending) < MaxProxies
            /\ tpc' = [tpc EXCEPT ![t] = "gs_lock"]
       ELSE UNCHANGED tpc
    /\ UNCHANGED <<camera_type, active_streams, stream_lock, proxies, procs, monitors,
                   camera_status, otherVars>>

\* _start_stream_proxy: with self.stream_locks[camera.id]
gs_acquire(t) ==
    /\ tpc[t] = "gs_lock"
    /\ stream_lock = 0
    /\ stream_lock' = t
    /\ tpc' = [tpc EXCEPT ![t] = "gs_start"]
    /\ UNCHANGED <<camera_type, active_streams, proxies, procs, monitors,
                   camera_status, otherVars>>

\* _start_stream_proxy under the lock: a new StreamProxy, its start(), the registry entry
gs_start(t) ==
    /\ tpc[t] = "gs_start"
    /\ \E o \in Launches, raises \in Faults :
         LET i == Len(proxies) + 1
             r == start(i, new_proxy, procs, monitors, o, raises)
         IN  /\ proxies' = Append(proxies, r.proxy)
             /\ procs' = r.procs
             /\ monitors' = r.monitors
             /\ active_streams' = IF r.ok THEN i ELSE active_streams
    /\ stream_lock' = 0
    /\ tpc' = [tpc EXCEPT ![t] = "idle"]
    /\ UNCHANGED <<camera_type, camera_status, otherVars>>

\* CameraManager.disconnect_camera up to the lock: the membership test
disconnect_camera(t) ==
    /\ tpc[t] = "idle"
    /\ IF active_streams # 0
       THEN tpc' = [tpc EXCEPT ![t] = "dc_lock"] /\ UNCHANGED camera_status
       ELSE camera_status' = "disabled" /\ UNCHANGED tpc
    /\ UNCHANGED <<camera_type, active_streams, stream_lock, proxies, procs, monitors,
                   otherVars>>

dc_acquire(t) ==
    /\ tpc[t] = "dc_lock"
    /\ stream_lock = 0
    /\ stream_lock' = t
    /\ tpc' = [tpc EXCEPT ![t] = "dc_pop"]
    /\ UNCHANGED <<camera_type, active_streams, proxies, procs, monitors,
                   camera_status, otherVars>>

\* disconnect_camera under the lock: pop the entry (KeyError when another caller
\* popped it: the function returns its failure result), stop the proxy, set the status
dc_pop(t) ==
    /\ tpc[t] = "dc_pop"
    /\ IF active_streams = 0
       THEN UNCHANGED <<active_streams, proxies, procs, camera_status>>
       ELSE \E raises \in Faults :
              LET r == stop(proxies[active_streams], procs, raises)
              IN  /\ proxies' = [proxies EXCEPT ![active_streams] = r.proxy]
                  /\ procs' = r.procs
                  /\ active_streams' = 0
                  /\ camera_status' = "disabled"
    /\ stream_lock' = 0
    /\ tpc' = [tpc EXCEPT ![t] = "idle"]
    /\ UNCHANGED <<camera_type, monitors, otherVars>>

\* a caller that holds a StreamProxy calls its start() again
proxy_start(i) ==
    /\ \E o \in Launches, raises \in Faults :
         LET r == start(i, proxies[i], procs, monitors, o, raises)
         IN  /\ proxies' = [proxies EXCEPT ![i] = r.proxy]
             /\ procs' = r.procs
             /\ monitors' = r.monitors
    /\ UNCHANGED <<camera_type, active_streams, stream_lock, tpc, camera_status, otherVars>>

\* a caller that holds a StreamProxy calls its stop()
proxy_stop(i) ==
    /\ proxies[i].process # 0
    /\ \E raises \in Faults :
         LET r == stop(proxies[i], procs, raises)
         IN  /\ proxies' = [proxies EXCEPT ![i] = r.proxy]
             /\ procs' = r.procs
    /\ UNCHANGED <<camera_type, active_streams, stream_lock, tpc, monitors,
                   camera_status, otherVars>>

\* the transcoder exits by itself
proc_exit(p) ==
    /\ procs[p].alive
    /\ procs' = [procs EXCEPT ![p].alive = FALSE]
    /\ UNCHANGED <<camera_type, active_streams, stream_lock, tpc, proxies, monitors,
                   camera_status, otherVars>>

\* monitor_process: the loop test on the stop event
monitor_check(m) ==
    /\ monitors[m].at = "check"
    /\ monitors' = [monitors EXCEPT ![m].at =
                      IF proxies[monitors[m].proxy].stop_event THEN "exited" ELSE "poll"]
    /\ UNCHANGED <<camera_type, active_streams, stream_lock, tpc, proxies, procs,
                   camera_status, otherVars>>

\* monitor_process: self.process.poll(), then the sleep when the process is running
monitor_poll(m) ==
    /\ monitors[m].at = "poll"
    /\ LET x == proxies[monitors[m].proxy]
       IN  monitors' = [monitors EXCEPT ![m].at =
                          IF x.process = 0 THEN "crashed"
                          ELSE IF procs[x.process].alive THEN "check" ELSE "read"]
    /\ UNCHANGED <<camera_type, active_streams, stream_lock, tpc, proxies, procs,
                   camera_status, otherVars>>

\* monitor_process: self.process.stderr.read(), is_running = False, break
monitor_read(m) ==
    /\ monitors[m].at = "read"
    /\ LET i == monitors[m].proxy
       IN  IF proxies[i].process = 0
           THEN /\ monitors' = [monitors EXCEPT ![m].at = "crashed"]
                /\ UNCHANGED proxies
           ELSE /\ monitors' = [monitors EXCEPT ![m].at = "exited"]
                /\ proxies' = [proxies EXCEPT ![i].is_running = FALSE]
    /\ UNCHANGED <<camera_type, active_streams, stream_lock, tpc, procs,
                   camera_status, otherVars>>

ProxyInit ==
    /\ VPIdle
    /\ MMIdle
    /\ ProbeIdle
    /\ faulty = FALSE
    /\ npc = "ready" /\ ns = NoRecord /\ phone = FALSE /\ now = 0 /\ saved = NoRecord
    /\ logs = <<>> /\ aborted = FALSE /\ plan = [c \in ChannelSet |-> AllSucceed]
    /\ camera_type \in CameraTypes
    /\ active_streams = 0 /\ stream_lock = 0
    /\ tpc = [t \in Threads |-> "idle"]
    /\ proxies = <<>> /\ procs = <<>> /\ monitors = <<>>

ProxyNext ==
    \/ \E t \in Threads : get_stream_url(t)
    \/ \E t \in Threads : gs_acquire(t)
    \/ \E t \in Threads : gs_start(t)
    \/ \E t \in Threads : disconnect_camera(t)
    \/ \E t \in Threads : dc_acquire(t)
    \/ \E t \in Threads : dc_pop(t)
    \/ \E i \in 1..Len(proxies) : proxy_start(i)
    \/ \E i \in 1..Len(proxies) : proxy_stop(i)
    \/ \E p \in 1..Len(procs) : proc_exit(p)
    \/ \E m \in 1..Len(monitors) : monitor_check(m)
    \/ \E m \in 1..Len(monitors) : monitor_poll(m)
    \/ \E m \in 1..Len(monitors) : monitor_read(m)

ProxySpec == ProxyInit /\ [][ProxyNext]_vars

\* a step of monitor thread m
monitor_step(m) ==
    /\ m <= Len(monitors)
    /\ monitor_check(m) \/ monitor_poll(m) \/ monitor_read(m)

\* the monitor threads are scheduled: a thread that can take its next step takes it
ProxyLiveSpec ==
    ProxySpec /\ \A m \in 1..MaxLaunches : WF_vars(monitor_step(m))

\* the same callers and threads where terminating a transcoder may raise
ProxyFaultInit ==
    /\ VPIdle
    /\ MMIdle
    /\ ProbeIdle
    /\ faulty = TRUE
    /\ npc = "ready" /\ ns = NoRecord /\ phone = FALSE /\ now = 0 /\ saved = NoRecord
    /\ logs = <<>> /\ aborted = FALSE /\ plan = [c \in ChannelSet |-> AllSucceed]
    /\ camera_type \in ProxyCameraTypes
    /\ active_streams = 0 /\ stream_lock = 0
    /\ tpc = [t \in Threads |-> "idle"]
    /\ proxies = <<>> /\ procs = <<>> /\ monitors = <<>>

ProxyFaultSpec == ProxyFaultInit /\ [][ProxyNext]_vars

\* ================================================================ claims: stream proxies
Alive == {p \in 1..Len(procs) : procs[p].alive}
AliveOf(i) == {p \in Alive : procs[p].owner = i}

\* C4: under any interleaving of get_stream_url and disconnect_camera calls for the
\* camera, at most one transcoder process launched for it is alive at any time.
C4_AtMostOneTranscoderPerCamera ==
    Cardinality(Alive) <= 1

\* C5: on a single StreamProxy, start() stops the process of an earlier start() before
\* it launches the new one: at most one process started by that proxy is alive.
C5_AtMostOneTranscoderPerProxy ==
    \A i \in 1..Len(proxies) : Cardinality(AliveOf(i)) <= 1

\* C5 witness: a proxy whose earlier process was alive when a later start() stopped
\* it, and whose newest process runs
C5_Witness ==
    \E p1 \in 1..Len(procs), p2 \in 1..Len(procs) :
        /\ p1 < p2 /\ procs[p1].owner = procs[p2].owner
        /\ procs[p1].stopped /\ procs[p2].alive
        /\ proxies[procs[p2].owner].process = p2

\* ================================================================ claims: notifications
Rank(sev) ==
    CASE sev = "low" -> 1 [] sev = "medium" -> 2 [] sev = "high" -> 3 [] sev = "critical" -> 4

RowsFor(c) == {k \in 1..Len(logs) : logs[k].channel = c}

\* the time t is inside the quiet-hours window of the settings s, both boundaries
\* included, for a same-day window and for an overnight one
InsideWindow(s, t) ==
    /\ s.quiet_hours_enabled
    /\ IF s.quiet_hours_start <= s.quiet_hours_end
       THEN s.quiet_hours_start <= t /\ t <= s.quiet_hours_end
       ELSE t >= s.quiet_hours_start \/ t <= s.quiet_hours_end

\* channel c is eligible for the saved alert apart from quiet hours
Eligible(c) ==
    /\ ns[c].enabled
    /\ saved.alert_type \in ToggledTypes /\ ns[c].for_type
    /\ Rank(saved.severity) >= Rank(ns[c].min_severity)
    /\ (c = "sms" => phone)

\* the handler has run for a newly created alert of a camera whose user has settings
Notified == npc = "done" /\ ns # NoRecord /\ saved.camera # None

\* C6: with quiet hours enabled and the current time inside the window, a newly created
\* critical alert gets a row on every otherwise eligible channel and a newly created
\* alert of any other severity gets a row on no channel.
C6_QuietHoursSuppressAllButCritical ==
    (Notified /\ InsideWindow(ns, now)) =>
        IF saved.severity = "critical"
        THEN \A c \in ChannelSet : Eligible(c) => RowsFor(c) # {}
        ELSE \A c \in ChannelSet : RowsFor(c) = {}

\* C7: outside quiet hours a channel gets a row for a newly created alert if and only
\* if it is globally enabled, its toggle for the alert's type is on, the alert's
\* severity rank reaches the channel's minimum and, for sms, the user has a phone number.
C7_RowIffEligibleOutsideQuietHours ==
    (Notified /\ ~InsideWindow(ns, now)) =>
        \A c \in ChannelSet : (RowsFor(c) # {}) <=> Eligible(c)

\* C7 witness: quiet hours are enabled and the time is outside the window; email got
\* its row at exactly its minimum severity, and push, globally disabled with its toggle
\* on and its threshold reached, got none
C7_Witness ==
    /\ Notified /\ ns.quiet_hours_enabled /\ ~InsideWindow(ns, now)
    /\ RowsFor("email") # {} /\ saved.severity = ns.email.min_severity
    /\ ~ns.push.enabled /\ ns.push.for_type
    /\ Rank(saved.severity) >= Rank(ns.push.min_severity)
    /\ RowsFor("push") = {}

\* channel c is eligible for the saved alert, quiet hours included
EligibleNow(c) ==
    Eligible(c) /\ (InsideWindow(ns, now) => saved.severity = "critical")

\* one of the calls of a channel's attempt raises
Fails(o) == ~o.create \/ ~o.send \/ ~o.save

\* C8: when the attempt on one channel fails (its send raises, or creating or updating
\* its row raises), every other eligible channel still gets a row that ended as sent
\* or failed.  A channel whose calls would fail is either attempted or was itself
\* skipped behind an earlier failed attempt.
C8_ChannelFailureLeavesOthersAttempted ==
    Notified =>
        \A c \in ChannelSet, d \in ChannelSet :
            (c # d /\ EligibleNow(c) /\ Fails(plan[c]) /\ EligibleNow(d)) =>
                \E k \in RowsFor(d) : logs[k].status \in {"sent", "failed"}

\* the clean not-running state of a proxy
Clean(x) == x.process = 0 /\ ~x.is_running

\* C12: when stop() returns the proxy is in the clean not-running state (handle
\* cleared, is_running false), whether the transcoder was alive, had exited, or
\* terminating it raised.
C12_StopLeavesProxyClean ==
    [][\A i \in 1..Len(proxies) : proxy_stop(i) => Clean(proxies'[i])]_vars

\* C15: notifications are dispatched at most once for an Alert, in the save that
\* creates it: no later save of the Alert adds a NotificationLog row, and no channel
\* ever has more than one row.
C15_DispatchOnlyOnCreation ==
    /\ [](\A c \in ChannelSet : Cardinality(RowsFor(c)) <= 1)
    /\ [][(npc \in {"done", "updated"}) => (logs' = logs)]_vars

\* C15 witness: the Alert got a row on all three channels at its creation and was
\* saved again afterwards with a severity that every channel accepts
C15_Witness ==
    /\ npc = "updated" /\ Len(logs) = 3 /\ saved.severity = "critical"
    /\ \A c \in ChannelSet : ns[c].enabled /\ ns[c].for_type

\* the transcoder that proxy i started with success has exited and stop() has not
\* been called since: the handle is still set and is_running is still true
ExitedUnnoticed(i) ==
    /\ i <= Len(proxies)
    /\ proxies[i].is_running /\ proxies[i].process # 0
    /\ ~procs[proxies[i].process].alive

\* C16: when start() has returned True, on a first start or on a restart after a
\* stop, and the transcoder later exits without stop() being called, is_running
\* eventually becomes false.
C16_ExitEventuallyClearsIsRunning ==
    \A i \in 1..MaxProxies :
        ExitedUnnoticed(i) ~> (i <= Len(proxies) /\ ~proxies[i].is_running)

C18_RaisingFrameHasNoEffect ==
    [][(last_exc' # last_exc) =>
          /\ out' = Append(out, Original(frame_count'))
          /\ detection_count' = detection_count
          /\ detection_frames' = detection_frames
          /\ detection_confidences' = detection_confidences
          /\ alert'.confidence = alert.confidence
          /\ alert'.severity = alert.severity
          /\ pc' \in {"loop", "finalize"}]_vars

\* the highest confidence among the detections of frame n
FrameMax(sn, n) == Max({d[2] : d \in {e \in sn : e[1] = n}})

\* C19: during a run the Alert's confidence never decreases from one frame to the
\* next: a step either leaves it as it is or raises it to the maximum detection
\* confidence of the frame just scored; the same holds of the stored row.
C19_ConfidenceNeverDecreases ==
    [][(alert # NoRecord /\ alert' # NoRecord) =>
          /\ alert'.confidence >= alert.confidence
          /\ alert_db'.confidence >= alert_db.confidence
          /\ (alert'.confidence # alert.confidence =>
                 /\ frame_count' \in scored'
                 /\ \E d \in seen' : d[1] = frame_count'
                 /\ alert'.confidence = FrameMax(seen', frame_count'))]_vars

\* C19 witness: a run whose first scored frame raised the Alert from 0 to 70 and whose
\* next scored frame, with a lower detection above the threshold, left it at 70
C19_Witness ==
    /\ pc = "loop" /\ alert # NoRecord /\ alert.confidence = 70
    /\ alert_db.confidence = 70
    /\ \E d1 \in seen, d2 \in seen :
         /\ d1[1] < d2[1] /\ d2[1] = frame_count
         /\ d1[2] = 70 /\ d2[2] = 30
         /\ d2[2] >= conf_threshold
         /\ FrameMax(seen, d1[1]) = 70 /\ FrameMax(seen, d2[1]) = 30

\* a stream run has read no more frames than its frame_limit
StreamReadsAtMostFrameLimit == mode = "stream" => frame_count <= frame_limit

\* a run that entered the frame loop leaves it and the function ends
RunTerminates == (pc = "loop") ~> (pc \in {"returned", "raised"})

\* C20: process_camera_stream terminates and reads no more than frame_limit frames,
\* for every frame_limit >= 0 and every duration >= 0; process_video terminates once
\* the frames of the file are exhausted.
C20_TerminatesWithinFrameLimit ==
    /\ []StreamReadsAtMostFrameLimit
    /\ RunTerminates

\* C21: with quiet hours enabled, a newly created alert that is not critical is
\* suppressed on all channels if and only if the current time is inside the window,
\* the boundaries of the window included both for a same-day window (start <= end)
\* and for an overnight one (start > end).
C21_SuppressedIffInsideWindow ==
    (Notified /\ ns.quiet_hours_enabled /\ saved.severity # "critical") =>
        IF InsideWindow(ns, now)
        THEN \A c \in ChannelSet : RowsFor(c) = {}
        ELSE \A c \in ChannelSet : Eligible(c) => RowsFor(c) # {}

\* Camera.STATUS_CHOICES
STATUS_CHOICES == {"online", "offline", "inactive", "error"}

\* C22: after any sequence of update_camera_statuses, disconnect_camera, the camera
\* stream view and process_camera_stream, the camera's status is one of online,
\* offline, error, inactive.
C22_StatusIsAChoice == camera_status \in STATUS_CHOICES

\* C23: capture_frame and verify_camera_connection never raise, for every transport
\* kind, the unsupported ones included, and every transport failure: the result has
\* a boolean success and a message, and the frame of capture_frame is non-null
\* exactly when success is true.
C23_ProbesNeverRaise ==
    probe.op \in {"capture_frame", "verify_camera_connection"} =>
        /\ ~probe.result.raised
        /\ probe.result.success \in BOOLEAN
        /\ probe.result.message # None
        /\ (probe.op = "capture_frame" =>
              ((probe.result.frame # None) <=> probe.result.success))

\* C23 witness: verify_camera_connection on an http camera whose request raised an
\* exception that is not a requests exception, reported as a failure
C23_Witness ==
    /\ probe.op = "verify_camera_connection" /\ probe.kind = "http"
    /\ probe.source = "exception"
    /\ ~probe.result.raised /\ probe.result.success = FALSE

\* what update_detector_config(key, c, i, s) must have done in a step
UpdatedExactly(key, c, i, s) ==
    LET old == get_detector_config(key, detector_configs)
        new == detector_configs'[key]
    IN  /\ new.conf_threshold = (IF c = NoArg THEN old.conf_threshold ELSE c)
        /\ new.iou_threshold = (IF i = NoArg THEN old.iou_threshold ELSE i)
        /\ new.image_size = (IF s = NoArg THEN old.image_size ELSE s)
        /\ DOMAIN detector_configs' = DOMAIN detector_configs \cup {key}
        /\ \A k \in DOMAIN detector_configs \ {key} :
              detector_configs'[k] = detector_configs[k]
        /\ active_detector_key' = active_detector_key
        /\ get_detector_config(key, detector_configs') = new
        /\ mm_last'.result = new

\* C24: update_detector_config(key, ...) changes exactly the fields passed as non-None
\* for that key and leaves the key's other fields, every other key's config and the
\* active detector key unchanged, and a following get_detector_config(key) returns
\* the updated values; get_detector_config changes no stored config and returns the
\* default (0.25, 0.45, 640) for an unconfigured key.
C24_UpdateChangesExactlyPassedFields ==
    [][/\ mm_last'.op = "update_detector_config" =>
            UpdatedExactly(mm_last'.key, mm_last'.conf_threshold, mm_last'.iou_threshold,
                           mm_last'.image_size)
       /\ mm_last'.op = "get_detector_config" =>
            /\ detector_configs' = detector_configs
            /\ active_detector_key' = active_detector_key
            /\ (mm_last'.key \notin DOMAIN detector_configs =>
                   mm_last'.result = DefaultConfig)
            /\ (mm_last'.key \in DOMAIN detector_configs =>
                   mm_last'.result = detector_configs[mm_last'.key])]_vars

\* C24 witness: fall's conf_threshold was set to 0 with the other arguments left out
\* while another detector was active; its other fields and fire_smoke's config stand
\* as initialized
C24_Witness ==
    /\ mm_last.op = "update_detector_config" /\ mm_last.key = "fall"
    /\ mm_last.conf_threshold = 0 /\ mm_last.iou_threshold = NoArg
    /\ mm_last.image_size = NoArg
    /\ detector_configs["fall"] = [conf_threshold |-> 0, iou_threshold |-> 37, image_size |-> 512]
    /\ detector_configs["fire_smoke"] = InitConfigs["fire_smoke"]
    /\ active_detector_key = "violence"

\* C25: a process_video call that gets past the detector lookup and the opening of
\* the file has created its one Alert, whether it was given a camera id that matches
\* a camera, one that matches none, or no camera id at all, and does not raise.
C25_AlertCreatedWithoutCamera ==
    (mode = "file" /\ pc # "idle" /\ error \notin {"UnknownDetector", "OpenFailed"}) =>
        /\ pc # "raised"
        /\ AlertExists

\* the next step of the run scores a frame
AtScoredFrame ==
    /\ pc = "loop" /\ frame_count < src_len
    /\ stride # 0 /\ (frame_count + 1) % stride = 0

\* C26: whenever a scored frame's decision is about to compare against the Alert's
\* running confidence, the stored Alert row holds the confidence and the severity of
\* the in-memory Alert, whatever the saves of the earlier frames did.
C26_StoredAlertMatchesRunningAlert ==
    AtScoredFrame =>
        /\ alert_db.confidence = alert.confidence
        /\ alert_db.severity = alert.severity

\* C27: for an Alert created by process_video or process_camera_stream the
\* notification decision is made at creation, against severity medium: a channel
\* gets its row then or never, a channel whose minimum severity is high or critical
\* never gets one, and inside quiet hours no channel gets one, whatever severity the
\* run reaches later.
C27_DecisionAtCreationSeverity ==
    /\ [](AlertExists =>
            \A c \in ChannelSet :
               (RowsFor(c) # {}) <=>
                  /\ ns[c].enabled /\ ns[c].for_type
                  /\ Rank("medium") >= Rank(ns[c].min_severity)
                  /\ ~InsideWindow(ns, now))
    /\ [](\A c \in ChannelSet : Rank(ns[c].min_severity) >= Rank("high") => RowsFor(c) = {})
    /\ [](InsideWindow(ns, now) => logs = <<>>)
    /\ [][pc # "idle" => logs' = logs]_vars

\* C27 witness: a run outside quiet hours that reached critical: push, with minimum
\* medium, has its row from the creation, and email and sms, with minimum high and
\* critical, have none
C27_Witness ==
    /\ pc = "returned" /\ alert_db.severity = "critical"
    /\ ~InsideWindow(ns, now)
    /\ RowsFor("push") # {} /\ RowsFor("email") = {} /\ RowsFor("sms") = {}

\* C28: get_stream_url reports a proxy stream as available only for a camera whose
\* transcoder is running: an active_streams entry whose transcoder has exited by
\* itself, and whose proxy has is_running false for it, is never reported as an
\* available stream.
C28_AvailableOnlyWhileRunning ==
    (reports_available /\ proxies[active_streams].process # 0) =>
        proxies[active_streams].is_running

\* C29: under any interleaving of a proxy's monitor thread with stop(), called
\* directly or at the beginning of a restarting start(), the monitor thread never
\* dereferences a cleared process handle: no monitor thread ends in an exception.
C29_MonitorNeverDereferencesClearedHandle ==
    \A m \in 1..Len(monitors) : monitors[m].at # "crashed"

\* C30: two processing runs never reserve the same output video path: any two runs
\* of process_camera_stream, also for the same camera and detector in the same clock
\* second, and any two runs of process_video have distinct video_file values.
C30_OutputPathsAreDistinct ==
    \A i \in 1..Len(video_files), j \in 1..Len(video_files) :
        i # j => video_files[i].video_file # video_files[j].video_file

====
